---- MODULE Spec2Model ----
(***************************************************************************)
(* The write side of the azalea wire codec (azalea-protocol mc_buf/write.rs *)
(* and minecraft-core serializable_uuid.rs) as a state machine over one     *)
(* byte sink (a Vec<u8>) and one Uuid value.                                *)
(*                                                                          *)
(* Representation of the Rust values:                                       *)
(*   u8                a number in 0..255                                   *)
(*   i16, i32          a number in the type's signed range                  *)
(*   u16               a number in 0..65535                                 *)
(*   u32, f32 (bits)   two 16-bit limbs, most significant first             *)
(*   i64, u64          four 16-bit limbs, most significant first            *)
(*   u128 / Uuid       eight 16-bit limbs, most significant first           *)
(*   str / String      the sequence of its Unicode scalar values            *)
(*   Vec<u8>, &[u8]    a sequence of u8                                     *)
(* Values wider than 31 bits are limb sequences because TLC's integers      *)
(* are 32-bit signed.                                                       *)
(***************************************************************************)
EXTENDS Integers, Sequences, FiniteSets, TLC

VARIABLES buf, last, nops, uuid, ints, uuid2

vars == <<buf, last, nops, uuid, ints, uuid2>>

(***************************************************************************)
(* Bounds of the model.                                                     *)
(***************************************************************************)
\* Operations applied to one sink.
MaxOps == 2
\* Each VarInt boundary value b is tried with b-d and b+d for d in 0..Spread.
Spread == 1
\* The length limits tried by write_utf_with_len are 0..MaxLimit.
MaxLimit == 5
\* The longest list and map written.
MaxListLen == 2
\* How many of LimbValues the limbs of a Uuid are drawn from.
LimbChoices == 2

(***************************************************************************)
(* Fixed-width integer arithmetic.                                          *)
(***************************************************************************)
MaxI32 == 2147483647
MinI32 == (-2147483647) - 1

RECURSIVE Pow2(_)
Pow2(n) ==
    IF n = 0 THEN 1 ELSE 2 * Pow2(n - 1)

\* x & y for a two's-complement x and a non-negative y, bit by bit.
RECURSIVE BitAnd(_, _)
BitAnd(x, y) ==
    IF x = 0 \/ y = 0
    THEN 0
    ELSE (x % 2) * (y % 2) + 2 * BitAnd(x \div 2, y \div 2)

\* x | y for non-negative x and y, bit by bit.
RECURSIVE BitOr(_, _)
BitOr(x, y) ==
    IF x = 0 /\ y = 0
    THEN 0
    ELSE (IF x % 2 = 1 \/ y % 2 = 1 THEN 1 ELSE 0) + 2 * BitOr(x \div 2, y \div 2)

\* x >> n on a signed value (Rust's >> on i32 is arithmetic).
Sar(x, n) ==
    x \div Pow2(n)

\* `x as u8` for any integer x.
AsU8(x) ==
    x % 256

\* `x as i16`: the low 16 bits, read as a signed value.
AsI16(x) ==
    LET low == x % 65536
    IN  IF low >= 32768 THEN low - 65536 ELSE low

\* `x as i16` for a u32 x given as two limbs: the low limb, read as signed.
U32AsI16(x) ==
    AsI16(x[2])

\* `x as i32` for a u32 x given as two limbs: the same 32 bits, read as signed.
U32AsI32(x) ==
    IF x[1] >= 32768
    THEN (x[1] - 65536) * 65536 + x[2]
    ELSE x[1] * 65536 + x[2]

\* `x as i32` for a u16 x: zero extension.
U16AsI32(x) ==
    x

\* `x as usize as i32` for a length (string.len(), list.len(), ...).
LenAsI32(n) ==
    n

IsPrefix(s, t) ==
    /\ Len(s) <= Len(t)
    /\ SubSeq(t, 1, Len(s)) = s

(***************************************************************************)
(* The sink.  A writer takes the sink content `self` and returns the        *)
(* content after the call with the call's outcome: "ok" (Ok(())), "err"     *)
(* (an Err returned to the caller) or "panic".                              *)
(***************************************************************************)
Ok(self) ==
    [buf |-> self, res |-> "ok"]

Panic(self) ==
    [buf |-> self, res |-> "panic"]

\* Write::write_all on a Vec<u8>: extends the vector, never fails.
write_all(self, bytes) ==
    self \o bytes

write_byte(self, n) ==
    Ok(write_all(self, <<n>>))

\* Mutant: the vector is replaced by the slice instead of extended with it.
write_bytes_replacing(self, bytes) ==
    Ok(bytes)

write_bytes(self, bytes) ==
    Ok(self \o bytes)

\* i32::max_value() >> 6, the mask that makes the shift by 7 a logical one.
VarintShiftMask ==
    Sar(MaxI32, 6)

\* Mutant: the mask is one bit short (i32::max_value() >> 7).
varint_step_mask24(value) ==
    LET low  == AsU8(BitAnd(value, 127))
        next == BitAnd(Sar(value, 7), Sar(MaxI32, 7))
    IN  [byte  |-> IF next # 0 THEN BitOr(low, 128) ELSE low,
         value |-> next]

\* Mutant: the value is shifted by 8 instead of 7.
varint_step_shift8(value) ==
    LET low  == AsU8(BitAnd(value, 127))
        next == BitAnd(Sar(value, 8), VarintShiftMask)
    IN  [byte  |-> IF next # 0 THEN BitOr(low, 128) ELSE low,
         value |-> next]

\* Mutant: the continuation flag is decided before the shift.
varint_step_flag_early(value) ==
    LET low  == AsU8(BitAnd(value, 127))
        next == BitAnd(Sar(value, 7), VarintShiftMask)
    IN  [byte  |-> IF value # 0 THEN BitOr(low, 128) ELSE low,
         value |-> next]

\* One pass of the body of the `while value != 0` loop of write_varint:
\* the byte it writes and the value it leaves.
varint_step(value) ==
    LET low  == AsU8(BitAnd(value, 127))
        next == BitAnd(Sar(value, 7), VarintShiftMask)
    IN  [byte  |-> IF next # 0 THEN BitOr(low, 128) ELSE low,
         value |-> next]

RECURSIVE varint_loop(_, _)
varint_loop(self, value) ==
    IF value = 0
    THEN self
    ELSE LET s == varint_step(value)
         IN  varint_loop(write_all(self, <<s.byte>>), s.value)

\* Mutant: the zero case is missing.
varint_zero_missing(self, value) ==
    self

\* The `if value == 0` statement before the loop.
varint_zero(self, value) ==
    IF value = 0 THEN write_all(self, <<0>>) ELSE self

write_varint(self, value) ==
    Ok(varint_loop(varint_zero(self, value), value))

(***************************************************************************)
(* Strings.  str::len() is the length of the UTF-8 form and as_bytes() is   *)
(* that form.                                                               *)
(***************************************************************************)
Utf8Char(c) ==
    IF c < 128 THEN <<c>>
    ELSE IF c < 2048 THEN <<192 + (c \div 64), 128 + (c % 64)>>
    ELSE IF c < 65536
         THEN <<224 + (c \div 4096), 128 + ((c \div 64) % 64), 128 + (c % 64)>>
    ELSE <<240 + (c \div 262144), 128 + ((c \div 4096) % 64),
           128 + ((c \div 64) % 64), 128 + (c % 64)>>

RECURSIVE as_bytes(_)
as_bytes(string) ==
    IF Len(string) = 0 THEN <<>>
    ELSE IF Len(string) = 1 THEN Utf8Char(string[1])
    ELSE LET half == Len(string) \div 2
         IN  as_bytes(SubSeq(string, 1, half))
                 \o as_bytes(SubSeq(string, half + 1, Len(string)))

str_len(string) ==
    Len(as_bytes(string))

\* Mutant: the check counts characters instead of bytes.
utf_too_big_chars(string, len) ==
    Len(string) > len

\* The oversize check at the head of write_utf_with_len.
utf_too_big(string, len) ==
    str_len(string) > len

\* What write_utf_with_len writes once the check has passed.
utf_body(self, string) ==
    LET r == write_varint(self, LenAsI32(str_len(string)))
    IN  IF r.res # "ok" THEN r ELSE write_bytes(r.buf, as_bytes(string))

write_utf_with_len(self, string, len) ==
    IF utf_too_big(string, len)
    THEN Panic(self)
    ELSE utf_body(self, string)

\* super::MAX_STRING_LENGTH (mc_buf/mod.rs), a u16.
MAX_STRING_LENGTH == 32767

write_utf(self, string) ==
    write_utf_with_len(self, string, MAX_STRING_LENGTH)

(***************************************************************************)
(* Fixed-width writers (byteorder's BigEndian writers on a Vec<u8>).        *)
(***************************************************************************)
\* The two bytes of a 16-bit limb, most significant first.
LimbBytes(l) ==
    <<l \div 256, l % 256>>

RECURSIVE LimbsBytes(_)
LimbsBytes(x) ==
    IF x = <<>> THEN <<>> ELSE LimbBytes(Head(x)) \o LimbsBytes(Tail(x))

write_short(self, n) ==
    Ok(self \o <<AsU8(Sar(n, 8)), AsU8(n)>>)

write_int(self, n) ==
    Ok(self \o <<AsU8(Sar(n, 24)), AsU8(Sar(n, 16)), AsU8(Sar(n, 8)), AsU8(n)>>)

write_long(self, n) ==
    Ok(self \o LimbsBytes(n))

\* n is the IEEE-754 bit pattern of the f32.
write_float(self, n) ==
    Ok(self \o LimbsBytes(n))

write_boolean(self, b) ==
    write_byte(self, IF b THEN 1 ELSE 0)

write_byte_array(self, bytes) ==
    LET r == write_varint(self, LenAsI32(Len(bytes)))
    IN  IF r.res # "ok" THEN r ELSE write_bytes(r.buf, bytes)

\* The tag codec is external: `nbt` gives what Tag::write appends to the
\* writer and whether it then returns an error; map_err keeps the error.
write_nbt(self, nbt) ==
    [buf |-> self \o nbt.bytes, res |-> IF nbt.fails THEN "err" ELSE "ok"]

(***************************************************************************)
(* Collection writers.  An element writer is a closure over the sink; the   *)
(* closures modelled are the ones built from the Writable operations:       *)
(*   [kind |-> "varint"]             |buf, n| buf.write_varint(n)           *)
(*   [kind |-> "utf"]                |buf, s| buf.write_utf(s)              *)
(*   [kind |-> "utf_with_len", len]  |buf, s| buf.write_utf_with_len(s,len) *)
(*   [kind |-> "int_id_list"]        |buf, l| buf.write_int_id_list(l)      *)
(*   [kind |-> "nbt"]                |buf, t| buf.write_nbt(t)              *)
(***************************************************************************)
RECURSIVE call_writer(_, _, _)

\* Mutant: the items are written last to first.
RECURSIVE list_loop_reversed(_, _, _)
list_loop_reversed(r, list, writer) ==
    IF r.res # "ok" \/ list = <<>>
    THEN r
    ELSE list_loop_reversed(call_writer(writer, r.buf, list[Len(list)]),
                            SubSeq(list, 1, Len(list) - 1), writer)

\* The `for item in list { writer(self, item)?; }` loop of write_list,
\* entered with the outcome r of what came before it.
RECURSIVE list_loop(_, _, _)
list_loop(r, list, writer) ==
    IF r.res # "ok" \/ list = <<>>
    THEN r
    ELSE list_loop(call_writer(writer, r.buf, Head(list)), Tail(list), writer)

\* The `self.write_varint(len as i32)?` that opens write_list and write_map.
write_count(self, n) ==
    write_varint(self, LenAsI32(n))

write_list(self, list, writer) ==
    list_loop(write_count(self, Len(list)), list, writer)

write_int_id_list(self, list) ==
    write_list(self, list, [kind |-> "varint"])

\* Mutant: the value is written before the key.
map_entry_value_first(self, entry, key_writer, value_writer) ==
    LET v == call_writer(value_writer, self, entry[2])
    IN  IF v.res # "ok" THEN v ELSE call_writer(key_writer, v.buf, entry[1])

\* One pass of the loop of write_map: the key, then the value.
map_entry(self, entry, key_writer, value_writer) ==
    LET k == call_writer(key_writer, self, entry[1])
    IN  IF k.res # "ok" THEN k ELSE call_writer(value_writer, k.buf, entry[2])

RECURSIVE map_loop(_, _, _, _)
map_loop(r, map, key_writer, value_writer) ==
    IF r.res # "ok" \/ map = <<>>
    THEN r
    ELSE map_loop(map_entry(r.buf, Head(map), key_writer, value_writer),
                  Tail(map), key_writer, value_writer)

write_map(self, map, key_writer, value_writer) ==
    map_loop(write_count(self, Len(map)), map, key_writer, value_writer)

call_writer(writer, self, item) ==
    CASE writer.kind = "varint"       -> write_varint(self, item)
      [] writer.kind = "utf"          -> write_utf(self, item)
      [] writer.kind = "utf_with_len" -> write_utf_with_len(self, item, writer.len)
      [] writer.kind = "int_id_list"  -> write_int_id_list(self, item)
      [] writer.kind = "nbt"          -> write_nbt(self, item)

(***************************************************************************)
(* Type-to-wire dispatch: the McBufWritable and McBufVarintWritable impls   *)
(* of the primitive types.                                                  *)
(***************************************************************************)
i32_write_into(self, b) ==
    write_int(b, self)

i32_varint_write_into(self, b) ==
    write_varint(b, self)

vec_u8_write_into(self, b) ==
    write_bytes(b, self)

string_write_into(self, b) ==
    write_utf(b, self)

i16_write_into(self, b) ==
    write_short(b, self)

u32_write_into(self, b) ==
    i16_write_into(U32AsI16(self), b)

u32_varint_write_into(self, b) ==
    i32_varint_write_into(U32AsI32(self), b)

u16_write_into(self, b) ==
    i16_write_into(AsI16(self), b)

u16_varint_write_into(self, b) ==
    i32_varint_write_into(U16AsI32(self), b)

u8_write_into(self, b) ==
    write_byte(b, self)

i64_write_into(self, b) ==
    write_long(b, self)

\* `*self as i64` keeps the 64 bits.
u64_write_into(self, b) ==
    i64_write_into(self, b)

bool_write_into(self, b) ==
    write_boolean(b, self)

i8_write_into(self, b) ==
    write_byte(b, AsU8(self))

f32_write_into(self, b) ==
    write_float(b, self)

\* todo!()
component_write_into(self, b) ==
    Panic(b)

(***************************************************************************)
(* Uuid <-> [u32; 4].  Unsigned values are limb sequences; the shifts of    *)
(* the code are by whole limbs (32 and 64 bits).                            *)
(***************************************************************************)
Zeros(n) ==
    [i \in 1..n |-> 0]

Ones(n) ==
    [i \in 1..n |-> 65535]

\* `x as uN` between unsigned widths, N = 16 * n: truncation or zero extension.
Cast(x, n) ==
    IF Len(x) >= n
    THEN SubSeq(x, Len(x) - n + 1, Len(x))
    ELSE Zeros(n - Len(x)) \o x

\* x >> bits and x << bits within x's width, bits a multiple of 16.
ShrBits(x, bits) ==
    Zeros(bits \div 16) \o SubSeq(x, 1, Len(x) - (bits \div 16))

ShlBits(x, bits) ==
    SubSeq(x, (bits \div 16) + 1, Len(x)) \o Zeros(bits \div 16)

LimbsAnd(x, y) ==
    [i \in 1..Len(x) |-> BitAnd(x[i], y[i])]

LimbsOr(x, y) ==
    [i \in 1..Len(x) |-> BitOr(x[i], y[i])]

\* Mutant: the two words of the least significant half change places.
least_most_to_int_array_swapped(most, least) ==
    << Cast(ShrBits(most, 32), 2),
       Cast(most, 2),
       Cast(least, 2),
       Cast(ShrBits(least, 32), 2) >>

least_most_to_int_array(most, least) ==
    << Cast(ShrBits(most, 32), 2),
       Cast(most, 2),
       Cast(ShrBits(least, 32), 2),
       Cast(least, 2) >>

most_significant_bits(self) ==
    Cast(ShrBits(self, 64), 4)

least_significant_bits(self) ==
    Cast(LimbsAnd(self, Cast(Ones(4), 8)), 4)

to_int_array(self) ==
    least_most_to_int_array(most_significant_bits(self),
                            least_significant_bits(self))

\* ((hi as u64) << 32) | ((lo as u64) & 0xFFFFFFFF)
join_words(hi, lo) ==
    LimbsOr(ShlBits(Cast(hi, 4), 32),
            LimbsAnd(Cast(lo, 4), Cast(Ones(2), 4)))

from_int_array(array) ==
    LET most  == join_words(array[1], array[2])
        least == join_words(array[3], array[4])
    IN  LimbsOr(ShlBits(Cast(most, 8), 64), Cast(least, 8))

(***************************************************************************)
(* The reader that mirrors write_varint: the low 7 bits of each byte are    *)
(* accumulated at shift 0, 7, 14, 21, 28 until a byte without the high bit; *)
(* the result is a 32-bit pattern.                                          *)
(***************************************************************************)
\* (x << shift) kept to 32 bits and read as an i32, for x in 0..127.
ShlWrap(x, shift) ==
    IF shift < 28
    THEN x * Pow2(shift)
    ELSE LET top == x % 16
         IN  (IF top >= 8 THEN top - 16 ELSE top) * Pow2(28)

RECURSIVE read_varint_at(_, _, _, _)
read_varint_at(bytes, idx, shift, acc) ==
    IF idx > Len(bytes) \/ shift > 28
    THEN [ok |-> FALSE, value |-> 0, consumed |-> idx - 1]
    ELSE LET b    == bytes[idx]
             acc2 == acc + ShlWrap(b % 128, shift)
         IN  IF b >= 128
             THEN read_varint_at(bytes, idx + 1, shift + 7, acc2)
             ELSE [ok |-> TRUE, value |-> acc2, consumed |-> idx]

read_varint(bytes) ==
    read_varint_at(bytes, 1, 0, 0)

(***************************************************************************)
(* The state machine.  buf is the sink; last records the latest call on it  *)
(* (operation, argument, the sink before the call, outcome); nops counts    *)
(* the calls.  uuid is a Uuid, ints what to_int_array returned for it and   *)
(* uuid2 what from_int_array returned for ints.                             *)
(***************************************************************************)
NoCall ==
    [op |-> "none", arg |-> <<>>, before |-> <<>>, res |-> "ok"]

NoInts == <<>>
NoUuid == <<>>

\* 6536bfed-8695-48fd-83a1-ecd24cf2a0fd
TestUuid ==
    <<25910, 49133, 34453, 18685, 33697, 60626, 19698, 41213>>

\* A call can be made on the sink.  A panic unwinds the caller: nothing is
\* written after it.
Callable ==
    /\ nops < MaxOps
    /\ last.res # "panic"

\* The call `op` with argument `arg` returns: r is the sink it leaves and
\* its outcome.
Return(op, arg, r) ==
    /\ buf' = r.buf
    /\ last' = [op |-> op, arg |-> arg, before |-> buf, res |-> r.res]
    /\ nops' = nops + 1
    /\ UNCHANGED <<uuid, ints, uuid2>>

WriteList(list, writer) ==
    /\ Callable
    /\ Return("write_list", [list |-> list, writer |-> writer],
              write_list(buf, list, writer))

WriteIntIdList(list) ==
    /\ Callable
    /\ Return("write_int_id_list", list, write_int_id_list(buf, list))

WriteMap(map, key_writer, value_writer) ==
    /\ Callable
    /\ Return("write_map",
              [map |-> map, key_writer |-> key_writer, value_writer |-> value_writer],
              write_map(buf, map, key_writer, value_writer))

WriteByte(n) ==
    /\ Callable
    /\ Return("write_byte", n, write_byte(buf, n))

WriteBytes(bytes) ==
    /\ Callable
    /\ Return("write_bytes", bytes, write_bytes(buf, bytes))

WriteVarint(value) ==
    /\ Callable
    /\ Return("write_varint", value, write_varint(buf, value))

WriteUtfWithLen(string, len) ==
    /\ Callable
    /\ Return("write_utf_with_len", [string |-> string, len |-> len],
              write_utf_with_len(buf, string, len))

WriteUtf(string) ==
    /\ Callable
    /\ Return("write_utf", string, write_utf(buf, string))

WriteShort(n) ==
    /\ Callable
    /\ Return("write_short", n, write_short(buf, n))

WriteByteArray(bytes) ==
    /\ Callable
    /\ Return("write_byte_array", bytes, write_byte_array(buf, bytes))

WriteInt(n) ==
    /\ Callable
    /\ Return("write_int", n, write_int(buf, n))

WriteBoolean(b) ==
    /\ Callable
    /\ Return("write_boolean", b, write_boolean(buf, b))

WriteNbt(nbt) ==
    /\ Callable
    /\ Return("write_nbt", nbt, write_nbt(buf, nbt))

WriteLong(n) ==
    /\ Callable
    /\ Return("write_long", n, write_long(buf, n))

WriteFloat(n) ==
    /\ Callable
    /\ Return("write_float", n, write_float(buf, n))

I32WriteInto(v) ==
    /\ Callable
    /\ Return("i32::write_into", v, i32_write_into(v, buf))

I32VarintWriteInto(v) ==
    /\ Callable
    /\ Return("i32::varint_write_into", v, i32_varint_write_into(v, buf))

VecU8WriteInto(v) ==
    /\ Callable
    /\ Return("Vec<u8>::write_into", v, vec_u8_write_into(v, buf))

StringWriteInto(v) ==
    /\ Callable
    /\ Return("String::write_into", v, string_write_into(v, buf))

U32WriteInto(v) ==
    /\ Callable
    /\ Return("u32::write_into", v, u32_write_into(v, buf))

U32VarintWriteInto(v) ==
    /\ Callable
    /\ Return("u32::varint_write_into", v, u32_varint_write_into(v, buf))

U16WriteInto(v) ==
    /\ Callable
    /\ Return("u16::write_into", v, u16_write_into(v, buf))

U16VarintWriteInto(v) ==
    /\ Callable
    /\ Return("u16::varint_write_into", v, u16_varint_write_into(v, buf))

U8WriteInto(v) ==
    /\ Callable
    /\ Return("u8::write_into", v, u8_write_into(v, buf))

I16WriteInto(v) ==
    /\ Callable
    /\ Return("i16::write_into", v, i16_write_into(v, buf))

I64WriteInto(v) ==
    /\ Callable
    /\ Return("i64::write_into", v, i64_write_into(v, buf))

U64WriteInto(v) ==
    /\ Callable
    /\ Return("u64::write_into", v, u64_write_into(v, buf))

BoolWriteInto(v) ==
    /\ Callable
    /\ Return("bool::write_into", v, bool_write_into(v, buf))

I8WriteInto(v) ==
    /\ Callable
    /\ Return("i8::write_into", v, i8_write_into(v, buf))

F32WriteInto(v) ==
    /\ Callable
    /\ Return("f32::write_into", v, f32_write_into(v, buf))

ComponentWriteInto(v) ==
    /\ Callable
    /\ Return("Component::write_into", v, component_write_into(v, buf))

ToIntArray ==
    /\ ints = NoInts
    /\ ints' = to_int_array(uuid)
    /\ UNCHANGED <<buf, last, nops, uuid, uuid2>>

FromIntArray ==
    /\ ints # NoInts
    /\ uuid2 = NoUuid
    /\ uuid2' = from_int_array(ints)
    /\ UNCHANGED <<buf, last, nops, uuid, ints>>

(***************************************************************************)
(* Inputs.                                                                  *)
(***************************************************************************)
\* The values at which the VarInt length changes.
Boundaries ==
    {0, 128, 16384, 2097152, 268435456}

\* The boundaries and their neighbours, the ends of i32 and theirs, and a few
\* values in between.
VarintInputs ==
    UNION {{b - d, b + d} : b \in Boundaries, d \in 0..Spread}
        \cup {MaxI32 - d : d \in 0..Spread}
        \cup {MinI32 + d : d \in 0..Spread}
        \cup {25565, -128, -268435456}

U8Inputs == {0, 255}
I8Inputs == {-1, 127}
BytesInputs == {<<>>, <<1, 128>>}
I16Inputs == {-2, 258}
U16Inputs == {300, 65535}
\* 0x01020304
I32Inputs == {-2, 16909060}
\* 1, 65536, 0x80000000, 0xFFFFFFFF
U32Inputs == {<<0, 1>>, <<1, 0>>, <<32768, 0>>, <<65535, 65535>>}
I64Inputs == {<<0, 1, 2, 65535>>, <<32768, 0, 0, 0>>}
\* 1.0 and -2.0
F32Inputs == {<<16256, 0>>, <<49152, 0>>}
SmallVarints == {0, 300, -1}

\* "A", "a", "b" and "\u{e9}\u{20ac}" (e acute, euro sign)
StrA == <<65>>
StrLowerA == <<97>>
StrLowerB == <<98>>
StrTwo == <<233, 8364>>
SmallStrings == {StrA, StrTwo}

\* "", "A", e acute, euro sign, U+1F600, and two longer strings:
\* 0, 1, 2, 3, 4, 5 and 5 bytes of UTF-8.
UtfStrings ==
    {<<>>, StrA, <<233>>, <<8364>>, <<128512>>, StrTwo, <<65, 65, 8364>>}

\* 8192 times U+1F600: 32768 bytes of UTF-8, one more than MAX_STRING_LENGTH.
LongString ==
    [i \in 1..8192 |-> 128512]

SeqsUpTo(S, n) ==
    UNION {[1..k -> S] : k \in 0..n}

LimbValues == <<0, 65535, 32768, 1>>

UuidInputs ==
    {TestUuid} \cup [1..8 -> {LimbValues[i] : i \in 1..LimbChoices}]

\* An empty compound tag, and a tag whose encoding fails after its first byte.
TagOk == [bytes |-> <<10, 0, 0, 0>>, fails |-> FALSE]
TagBad == [bytes |-> <<10>>, fails |-> TRUE]

VarintWriter == [kind |-> "varint"]
UtfWriter == [kind |-> "utf"]
UtfLenWriter(len) == [kind |-> "utf_with_len", len |-> len]
IntIdListWriter == [kind |-> "int_id_list"]
NbtWriter == [kind |-> "nbt"]

(***************************************************************************)
(* Specifications.                                                          *)
(***************************************************************************)
Init ==
    /\ buf = <<>>
    /\ last = NoCall
    /\ nops = 0
    /\ uuid = TestUuid
    /\ ints = NoInts
    /\ uuid2 = NoUuid

\* Every Writable operation, on small inputs.
Next ==
    \/ \E n \in U8Inputs : WriteByte(n)
    \/ \E bytes \in BytesInputs : WriteBytes(bytes)
    \/ \E v \in SmallVarints : WriteVarint(v)
    \/ \E s \in SmallStrings, len \in {1, 5} : WriteUtfWithLen(s, len)
    \/ \E s \in SmallStrings : WriteUtf(s)
    \/ \E n \in I16Inputs : WriteShort(n)
    \/ \E bytes \in BytesInputs : WriteByteArray(bytes)
    \/ \E n \in I32Inputs : WriteInt(n)
    \/ \E b \in BOOLEAN : WriteBoolean(b)
    \/ \E t \in {TagOk, TagBad} : WriteNbt(t)
    \/ \E n \in I64Inputs : WriteLong(n)
    \/ \E n \in F32Inputs : WriteFloat(n)
    \/ \E list \in {<<>>, <<7, 9>>} : WriteIntIdList(list)
    \/ WriteList(<<7, 300>>, VarintWriter)
    \/ WriteList(<<StrA, StrTwo, StrA>>, UtfLenWriter(1))
    \/ WriteList(<<TagOk, TagBad, TagOk>>, NbtWriter)
    \/ WriteList(<< <<>>, <<7, 9>> >>, IntIdListWriter)
    \/ WriteMap(<< <<1, StrLowerA>> >>, VarintWriter, UtfWriter)
    \/ WriteMap(<< <<StrA, 1>>, <<StrTwo, 2>>, <<StrA, 3>> >>,
                UtfLenWriter(1), VarintWriter)
    \/ WriteMap(<< <<1, TagOk>>, <<2, TagBad>>, <<3, TagOk>> >>,
                VarintWriter, NbtWriter)

Spec == Init /\ [][Next]_vars

\* write_varint alone, across the boundaries of its length.
NextVarint ==
    \E v \in VarintInputs : WriteVarint(v)

SpecVarint == Init /\ [][NextVarint]_vars

\* The string writers, across length limits.
NextUtf ==
    \/ \E s \in UtfStrings, len \in 0..MaxLimit : WriteUtfWithLen(s, len)
    \/ \E s \in UtfStrings \cup {LongString} : WriteUtf(s)

SpecUtf == Init /\ [][NextUtf]_vars

\* The collection writers, on every list and map up to MaxListLen.
NextColl ==
    \/ \E list \in SeqsUpTo({7, 9}, MaxListLen) : WriteIntIdList(list)
    \/ \E list \in SeqsUpTo({300, -1}, MaxListLen) : WriteList(list, VarintWriter)
    \/ \E list \in SeqsUpTo({StrA, StrTwo}, MaxListLen) :
           WriteList(list, UtfLenWriter(1))
    \/ \E map \in SeqsUpTo({<<2, StrLowerA>>, <<1, StrLowerB>>}, MaxListLen) :
           WriteMap(map, VarintWriter, UtfWriter)

SpecColl == Init /\ [][NextColl]_vars

\* The dispatch impls of the primitive types.
NextDispatch ==
    \/ \E v \in I32Inputs : I32WriteInto(v)
    \/ \E v \in I32Inputs : I32VarintWriteInto(v)
    \/ \E v \in BytesInputs : VecU8WriteInto(v)
    \/ \E v \in SmallStrings : StringWriteInto(v)
    \/ \E v \in U32Inputs : U32WriteInto(v)
    \/ \E v \in U32Inputs : U32VarintWriteInto(v)
    \/ \E v \in U16Inputs : U16WriteInto(v)
    \/ \E v \in U16Inputs : U16VarintWriteInto(v)
    \/ \E v \in U8Inputs : U8WriteInto(v)
    \/ \E v \in I16Inputs : I16WriteInto(v)
    \/ \E v \in I64Inputs : I64WriteInto(v)
    \/ \E v \in I64Inputs : U64WriteInto(v)
    \/ \E v \in BOOLEAN : BoolWriteInto(v)
    \/ \E v \in I8Inputs : I8WriteInto(v)
    \/ \E v \in F32Inputs : F32WriteInto(v)
    \/ ComponentWriteInto("text")

SpecDispatch == Init /\ [][NextDispatch]_vars

\* The Uuid codec, on every Uuid of UuidInputs.
InitUuid ==
    /\ buf = <<>>
    /\ last = NoCall
    /\ nops = 0
    /\ uuid \in UuidInputs
    /\ ints = NoInts
    /\ uuid2 = NoUuid

NextUuid ==
    \/ ToIntArray
    \/ FromIntArray

SpecUuid == InitUuid /\ [][NextUuid]_vars

(***************************************************************************)
(* Properties.                                                              *)
(***************************************************************************)
\* What the latest call appended to the sink.
Appended ==
    SubSeq(buf, Len(last.before) + 1, Len(buf))

RECURSIVE Concat(_)
Concat(seqs) ==
    IF seqs = <<>> THEN <<>> ELSE Head(seqs) \o Concat(Tail(seqs))

\* The bytes write_varint gives for each input, on an empty sink.
VarintCode ==
    [v \in VarintInputs |-> write_varint(<<>>, v).buf]

\* The value left in the loop of write_varint after at most k passes.
RECURSIVE ValueAfter(_, _)
ValueAfter(value, k) ==
    IF k = 0 \/ value = 0
    THEN value
    ELSE ValueAfter(varint_step(value).value, k - 1)

\* C1: the mirror reader, given the bytes write_varint(v) appended (followed
\* by anything), returns v and has consumed exactly those bytes; the bytes
\* written before the call are untouched.
VarintRoundTrip ==
    last.op = "write_varint" =>
        /\ IsPrefix(last.before, buf)
        /\ \A rest \in {<<>>, <<0>>, <<255, 1>>} :
               read_varint(Appended \o rest)
                   = [ok |-> TRUE, value |-> last.arg, consumed |-> Len(Appended)]

\* A negative value written after earlier content and read back.
VarintRoundTripWitness ==
    /\ last.op = "write_varint"
    /\ last.arg = MinI32
    /\ last.before # <<>>
    /\ read_varint(Appended).value = MinI32

\* C2: write_varint appends one byte for v in 0..127 (the byte 0 for v = 0),
\* between 1 and 5 bytes for every v, 5 bytes for every negative v, and its
\* loop has run out of value after at most 5 passes.
VarintLength ==
    last.op = "write_varint" =>
        LET v == last.arg
            n == Len(buf) - Len(last.before)
        IN  /\ last.res = "ok"
            /\ n \in 1..5
            /\ (v \in 0..127 => n = 1)
            /\ (v = 0 => Appended = <<0>>)
            /\ (v < 0 => n = 5)
            /\ ValueAfter(v, 5) = 0

\* Zero has been written: the one case the loop does not handle.
VarintLengthWitness ==
    /\ last.op = "write_varint"
    /\ last.arg = 0
    /\ Appended = <<0>>

\* C3 as stated: -1 gives 5 bytes, the continuation flag on all but the
\* last, and the value bits 0x7F in each of the 5.
MinusOneAllSevenF ==
    (last.op = "write_varint" /\ last.arg = -1) =>
        /\ Len(Appended) = 5
        /\ \A i \in 1..4 : Appended[i] >= 128
        /\ Appended[5] < 128
        /\ \A i \in 1..5 : Appended[i] % 128 = 127

\* C3 amended: -1 gives 5 bytes, the continuation flag on all but the last;
\* the first 4 carry the value bits 0x7F and the last carries 0x0F, the 4
\* bits of the 32 that remain.
MinusOneBytes ==
    (last.op = "write_varint" /\ last.arg = -1) =>
        /\ Len(Appended) = 5
        /\ \A i \in 1..4 : Appended[i] >= 128
        /\ Appended[5] < 128
        /\ \A i \in 1..4 : Appended[i] % 128 = 127
        /\ Appended[5] = 15

MinusOneWitness ==
    /\ last.op = "write_varint"
    /\ last.arg = -1
    /\ Appended = <<255, 255, 255, 255, 15>>

\* C10: in the bytes write_varint appends, every byte but the last has the
\* high bit set and the last has it clear, the last byte is non-zero unless
\* v = 0, and the bytes of v neither are a prefix of nor have as a prefix
\* the bytes of any other value.
VarintStructure ==
    last.op = "write_varint" =>
        LET a == Appended
            n == Len(Appended)
        IN  /\ n >= 1
            /\ \A i \in 1..(n - 1) : a[i] >= 128
            /\ a[n] < 128
            /\ (a[n] = 0 => last.arg = 0)
            /\ \A w \in VarintInputs \ {last.arg} :
                   /\ ~IsPrefix(VarintCode[w], a)
                   /\ ~IsPrefix(a, VarintCode[w])

\* A three-byte encoding: two continuation bytes and a last byte.
VarintStructureWitness ==
    /\ last.op = "write_varint"
    /\ last.arg = 16384
    /\ Appended = <<128, 128, 1>>

\* C4 as stated: u32::write_into appends the 4 big-endian bytes write_int
\* appends for the same 32 bits.
U32DefaultIsWriteInt ==
    last.op = "u32::write_into" =>
        /\ last.res = "ok"
        /\ Appended = write_int(<<>>, U32AsI32(last.arg)).buf

\* The words [M>>32, M & 0xFFFFFFFF, L>>32, L & 0xFFFFFFFF] of a Uuid.
Words(u) ==
    << <<u[1], u[2]>>, <<u[3], u[4]>>, <<u[5], u[6]>>, <<u[7], u[8]>> >>

\* C5: to_int_array gives the four words of the Uuid, most significant
\* first, from_int_array of them gives the Uuid back, and
\* 6536bfed-8695-48fd-83a1-ecd24cf2a0fd has the words 0x6536bfed,
\* 0x869548fd, 0x83a1ecd2, 0x4cf2a0fd.
UuidRoundTrip ==
    /\ ints # NoInts => ints = Words(uuid)
    /\ uuid2 # NoUuid => uuid2 = uuid
    /\ (ints # NoInts /\ uuid = TestUuid) =>
           ints = << <<25910, 49133>>, <<34453, 18685>>,
                     <<33697, 60626>>, <<19698, 41213>> >>

\* The all-one Uuid has gone to words and back.
UuidRoundTripWitness ==
    /\ uuid = Ones(8)
    /\ ints = <<Ones(2), Ones(2), Ones(2), Ones(2)>>
    /\ uuid2 = Ones(8)

\* The limit a string call of the sink was made with.
UtfCall ==
    last.op \in {"write_utf_with_len", "write_utf"}

UtfString ==
    IF last.op = "write_utf" THEN last.arg ELSE last.arg.string

UtfLimit ==
    IF last.op = "write_utf" THEN MAX_STRING_LENGTH ELSE last.arg.len

\* C6: a string whose UTF-8 form is longer than the limit makes the call
\* fail and leaves the sink as it was; any other string is written as the
\* VarInt of its byte length followed by its UTF-8 bytes ("A" as 01 41).
UtfLimitEnforced ==
    UtfCall =>
        LET bytes == as_bytes(UtfString)
        IN  /\ Len(bytes) > UtfLimit => (last.res # "ok" /\ buf = last.before)
            /\ Len(bytes) <= UtfLimit =>
                   /\ last.res = "ok"
                   /\ buf = last.before \o write_varint(<<>>, Len(bytes)).buf \o bytes
                   /\ UtfString = StrA => Appended = <<1, 65>>
                   /\ UtfString = StrTwo => Appended = <<5, 195, 169, 226, 130, 172>>
                   /\ UtfString = <<128512>> => Appended = <<4, 240, 159, 152, 128>>

\* A string of 2 characters and 5 bytes refused under a limit of 4, after
\* earlier content.
UtfLimitWitness ==
    /\ last.op = "write_utf_with_len"
    /\ last.arg = [string |-> StrTwo, len |-> 4]
    /\ last.res = "panic"
    /\ last.before # <<>>
    /\ buf = last.before

\* C7: every step leaves the earlier content of the sink in place: the sink
\* before is a prefix of the sink after, and the sink never gets shorter.
AppendOnly ==
    [][IsPrefix(buf, buf') /\ Len(buf') >= Len(buf)]_vars

\* A call that failed part-way, after earlier content: what it had written
\* stays, after what was there.
AppendOnlyWitness ==
    /\ last.op \in {"write_list", "write_map"}
    /\ last.res # "ok"
    /\ last.before # <<>>
    /\ Len(buf) > Len(last.before) + 1
    /\ IsPrefix(last.before, buf)

\* VarInt(n), then what the writer gives for each item, in order.
ListCode(list, writer) ==
    write_varint(<<>>, Len(list)).buf
        \o Concat([i \in 1..Len(list) |-> call_writer(writer, <<>>, list[i]).buf])

\* C8: a write_list whose element writer succeeds on every item appends
\* VarInt(n), then the writer's bytes for each item in input order, and
\* nothing else; write_int_id_list is write_list with write_varint
\* ([7, 9] gives 02 07 09); the empty list gives the byte 00.
ListFraming ==
    /\ (last.op = "write_list" /\ last.res = "ok") =>
           /\ Appended = ListCode(last.arg.list, last.arg.writer)
           /\ last.arg.list = <<>> => Appended = <<0>>
    /\ last.op = "write_int_id_list" =>
           /\ last.res = "ok"
           /\ Appended = ListCode(last.arg, VarintWriter)
           /\ last.arg = <<7, 9>> => Appended = <<2, 7, 9>>
           /\ last.arg = <<>> => Appended = <<0>>

\* A list whose order shows, written after earlier content.
ListFramingWitness ==
    /\ last.op = "write_list"
    /\ last.arg.writer = VarintWriter
    /\ last.arg.list = <<300, -1>>
    /\ last.before # <<>>
    /\ Appended = <<2, 172, 2, 255, 255, 255, 255, 15>>

\* VarInt(n), then for each pair the key's bytes and the value's bytes.
MapCode(map, key_writer, value_writer) ==
    write_varint(<<>>, Len(map)).buf
        \o Concat([i \in 1..Len(map) |->
                      call_writer(key_writer, <<>>, map[i][1]).buf
                          \o call_writer(value_writer, <<>>, map[i][2]).buf])

\* C9: a write_map whose writers succeed on every pair appends VarInt(n),
\* then for each pair in input order the key's bytes followed at once by
\* the value's bytes; pairs are neither sorted nor merged
\* ([(1, "a")] with write_varint and write_utf gives 01 01 01 61).
MapFraming ==
    (last.op = "write_map" /\ last.res = "ok") =>
        /\ Appended = MapCode(last.arg.map, last.arg.key_writer, last.arg.value_writer)
        /\ (last.arg.key_writer = VarintWriter /\ last.arg.value_writer = UtfWriter) =>
               /\ last.arg.map = << <<1, StrLowerA>> >>
                      => Appended = <<1, 1, 1, 97>>
               /\ last.arg.map = << <<2, StrLowerA>>, <<1, StrLowerB>> >>
                      => Appended = <<2, 2, 1, 97, 1, 1, 98>>
               /\ last.arg.map = << <<2, StrLowerA>>, <<2, StrLowerA>> >>
                      => Appended = <<2, 2, 1, 97, 2, 1, 97>>

\* Two pairs with their keys in descending order, written in that order.
MapFramingWitness ==
    /\ last.op = "write_map"
    /\ last.arg.key_writer = VarintWriter
    /\ last.arg.map = << <<2, StrLowerA>>, <<1, StrLowerB>> >>
    /\ last.res = "ok"
    /\ Appended = <<2, 2, 1, 97, 1, 1, 98>>

====
